---- MODULE Spec2Model ----
(***************************************************************************)
(* A model of TuyaDevice (src/index.js): the TCP session (connect,         *)
(* disconnect, socket events, heartbeat interval), the request layer       *)
(* (get, set, _send under p-retry, the sequence-keyed resolver table and   *)
(* _packetHandler) and the UDP discovery call find().                      *)
(*                                                                         *)
(* Each action is one run-to-completion turn of the Node.js event loop: a  *)
(* public method call together with the promise reactions it queues, or    *)
(* one event-handler invocation.                                           *)
(*                                                                         *)
(* Modelled from their documented behaviour, since they are libraries and  *)
(* not code of this repository:                                            *)
(*  - net.Socket: destroy() queues one 'close' event and is a no-op on a   *)
(*    socket already destroyed; an 'error' event is always followed by     *)
(*    'close'; setTimeout(ms, cb) arms an idle timer and registers cb      *)
(*    once; setTimeout(0) disarms it; destroy() disarms it.                *)
(*  - timers: clearTimeout(h) cancels the timer or interval h and is a     *)
(*    no-op for undefined, for a number naming no timer and for a handle   *)
(*    already cancelled.                                                   *)
(*  - p-retry: pRetry(f, {retries: n}) calls f, and calls it again after a *)
(*    back-off timer each time the promise f returned rejects, at most n   *)
(*    more times; it resolves with f's value and rejects once the          *)
(*    n+1st attempt rejected.  It arms no timer while f's promise is       *)
(*    pending.                                                             *)
(*  - p-timeout: pTimeout(p, ms, fb) settles as p does and then cancels    *)
(*    its timer; when the timer fires first it settles with fb().          *)
(*  - EventEmitter: the host has subscribed to 'error' (emit('error')      *)
(*    returns normally).                                                   *)
(* Inbound packets are the decoder's output (lib/message-parser is not     *)
(* under src/): a command byte, a sequence number and a payload.  A        *)
(* payload is modelled by a label equal to the sequence number the device  *)
(* answered, so that a payload delivered to the wrong caller is visible.   *)
(***************************************************************************)
EXTENDS Naturals, FiniteSets, Sequences

\* ---------------------------------------------------------------- bounds
\* Two families of runs are explored.  Session runs follow the life of the
\* transport: several sockets, few requests.  Request runs follow the
\* request layer on one connection: one socket, more requests, and enough
\* sequence numbers for one request to use up its retries.
MaxSockets     == 2   \* session runs: net.Socket objects the instance creates
SessionCalls   == 2   \* session runs: calls that pass _send's guard
SessionSeq     == 3   \* session runs: cap on _currentSequenceN
RequestSockets == 1   \* request runs: net.Socket objects the instance creates
MaxCalls       == 3   \* request runs: calls that pass _send's guard
MaxSeq         == 6   \* request runs: cap on _currentSequenceN
MaxBuf         == 2   \* packets decoded from one 'data' buffer
MaxFinds       == 2   \* discovery runs: find() calls
MaxDev         == 2   \* discovery runs: identifiers, and addresses, on the network

SessionRun == [sockets |-> MaxSockets, calls |-> SessionCalls, seq |-> SessionSeq]
RequestRun == [sockets |-> RequestSockets, calls |-> MaxCalls, seq |-> MaxSeq]
\* Retry runs follow one send through its retries, with sequence numbers
\* left over once p-retry has given up.
RetryRun == [sockets |-> RequestSockets, calls |-> SessionCalls,
             seq |-> MaxSeq + 2]

\* ------------------------------------------------------ program constants
Retries    == 5      \* pRetry(..., {retries: 5})
CmdSet     == 7      \* commandByte of set() and of its acknowledgement
CmdPing    == 9      \* commandByte of the heartbeat
CmdGet     == 10     \* commandByte of get() and of a status reply

Sockets == 1..MaxSockets
Calls   == 1..MaxCalls
Seqs    == 0..(MaxSeq + 2)
Finds   == 1..MaxFinds
Entries == (0..MaxDev) \X (0..MaxDev)

VARIABLES
  _connected,         \* this._connected
  client,             \* this.client: 0 = undefined, else a socket
  sock,               \* per socket: "none", "connecting", "open",
                      \*   "destroyed" ('close' queued), "closed"
  sockTimer,          \* per socket: idle timer of client.setTimeout armed
  connectPromise,     \* per socket: the promise of the connect() that made it
  connCall,           \* per socket: the get() its 'connect' handler awaits
  pingpongTimeout,    \* this.pingpongTimeout: 0 = undefined/null, else the
                      \*   interval made by that socket's 'connect' handler
  timers,             \* the intervals that are live
  _currentSequenceN,  \* this._currentSequenceN
  _resolvers,         \* this._resolvers: key -> call whose resolver it holds
  nCalls,             \* calls made so far
  kind,               \* per call: "none", "get", "set", "ping"
  sendState,          \* per call, the promise of _send: "none",
                      \*   "notconnected" (threw), "active" (written, waits
                      \*   for its resolver), "backoff" (attempt rejected,
                      \*   retry timer armed), "resolved", "failed"
  attempts,           \* per call: attempts p-retry has made
  seqOf,              \* per call: key its resolver was stored under
  callState,          \* per call, the promise get()/set() returned
  result,             \* per call: payload its resolver was given
  written,            \* sequence numbers of the buffers written to a socket
  writeRaises,        \* the try block of an attempt raises
  last,               \* what the turn just taken did, when it was a
                      \*   'data' event, get() or set() (a history variable)
  device,             \* this.device: id, ip, gwID, productKey, version
                      \*   (0 = undefined)
  foundDevices,       \* this.foundDevices, the array taken as a bag: how
                      \*   many entries it holds for each <<id, ip>>
  nFinds,             \* find() calls made so far
  listener,           \* per find(): its UDP socket: "none", "bound", "closed"
  handlers,           \* per find(): the socket's listeners are attached
  findTimer,          \* per find(): the timer of p-timeout is armed
  findPromise,        \* per find(): the promise it returned
  findOutcome,        \* per find(): what the promise settled with
  findAll,            \* per find(): options.all
  heard               \* what the turn just taken handled, when it was a
                      \*   'message' event (a history variable)

vars == <<_connected, client, sock, sockTimer, connectPromise, connCall,
          pingpongTimeout, timers, _currentSequenceN, _resolvers, nCalls,
          kind, sendState, attempts, seqOf, callState, result, written,
          writeRaises, last, device, foundDevices, nFinds, listener,
          handlers, findTimer, findPromise, findOutcome, findAll, heard>>

findVars == <<device, foundDevices, nFinds, listener, handlers, findTimer,
              findPromise, findOutcome, findAll, heard>>
sessionVars == <<_connected, client, sock, sockTimer, connectPromise, connCall,
                 pingpongTimeout, timers, _currentSequenceN, _resolvers,
                 nCalls, kind, sendState, attempts, seqOf, callState, result,
                 written, writeRaises, last>>

connVars == <<_connected, client, sock, sockTimer, connectPromise, connCall,
              pingpongTimeout, timers>>
callVars == <<_currentSequenceN, _resolvers, nCalls, kind, sendState, attempts,
              seqOf, callState, result, written>>

NoResult == MaxSeq + 10

\* `last` after a turn that was none of get(), set() and the 'data', 'error'
\* and 'close' events.  op: "get", "set", "data", "error" or "close";
\* emitted: the notifications the handler emitted; outcome: the promise a get()/set() returned;
\* threw: the 'data' handler raised; acked, echoed: the sequence numbers of
\* the acknowledgements and of the status frames it handled; fbHit: it took
\* the sequence-0 fallback, fbCall: the call whose resolver the fallback ran,
\* fbPending: the calls whose _send was pending when it did.
Quiet == [op |-> "none", outcome |-> "none", threw |-> FALSE, acked |-> {},
          echoed |-> {}, fbHit |-> FALSE, fbCall |-> 0, fbPending |-> {},
          emitted |-> {}]

\* `heard` after a turn that was not a 'message' event
\* find: the find() whose handler ran; type, gwId, ip: the datagram; pending:
\* the promise of that find() was pending when it arrived; known: an entry
\* for the pair was in this.foundDevices; dev: this.device when it arrived.
Silent == [find |-> 0, type |-> "none", gwId |-> 0, ip |-> 0,
           pending |-> FALSE, known |-> FALSE, dev |-> <<>>]

\* The instance after construction, but for this.device
InitSession ==
  /\ _connected = FALSE
  /\ client = 0
  /\ sock = [s \in Sockets |-> "none"]
  /\ sockTimer = [s \in Sockets |-> FALSE]
  /\ connectPromise = [s \in Sockets |-> "none"]
  /\ connCall = [s \in Sockets |-> 0]
  /\ pingpongTimeout = 0
  /\ timers = {}
  /\ _currentSequenceN = 0
  /\ _resolvers = [k \in Seqs |-> 0]
  /\ nCalls = 0
  /\ kind = [r \in Calls |-> "none"]
  /\ sendState = [r \in Calls |-> "none"]
  /\ attempts = [r \in Calls |-> 0]
  /\ seqOf = [r \in Calls |-> 0]
  /\ callState = [r \in Calls |-> "none"]
  /\ result = [r \in Calls |-> NoResult]
  /\ written = {}
  /\ writeRaises = FALSE
  /\ last = Quiet
  /\ foundDevices = [e \in Entries |-> 0]
  /\ nFinds = 0
  /\ listener = [f \in Finds |-> "none"]
  /\ handlers = [f \in Finds |-> FALSE]
  /\ findTimer = [f \in Finds |-> FALSE]
  /\ findPromise = [f \in Finds |-> "none"]
  /\ findOutcome = [f \in Finds |-> "none"]
  /\ findAll = [f \in Finds |-> FALSE]
  /\ heard = Silent

\* The configurations the constructor accepts: id or ip is a non-empty
\* string (here: of device 1); gwID defaults to id, version to 3.1
Config(i, a) == [id |-> i, ip |-> a, gwID |-> i, productKey |-> 0, version |-> 31]

Init == InitSession /\ device = Config(1, 1)

InitFind == InitSession /\ device \in {Config(1, 0), Config(0, 1), Config(1, 1)}

\* ------------------------------------------------------------- helpers

isConnected == _connected

\* (a destroy() that does nothing)
DestroyNothing(sk, s) == sk

\* socket.destroy(): queues 'close'; nothing on a socket already destroyed
Destroy(sk, s) ==
  IF s # 0 /\ sk[s] \in {"connecting", "open"}
  THEN [sk EXCEPT ![s] = "destroyed"] ELSE sk

\* the idle timers left armed once the sockets in sk are destroyed
TimersAfter(tm, sk) ==
  [s \in Sockets |-> tm[s] /\ sk[s] \in {"connecting", "open"}]

\* clearTimeout(h)
ClearTimeout(live, h) == live \ {h}

Min(S) == CHOOSE x \in S : \A y \in S : x <= y

\* ------------------------------------------------------- the request layer

\* (a missing guard: _send goes on whatever isConnected() returns)
MaySendAlways(conn) == TRUE

\* _send's guard, conn being what isConnected() returns: it throws unless
\* connected
MaySend(conn) == conn

\* (the budget taken for a number of attempts: the last retry is not made)
GivesUpEarly(made) == made >= Retries

\* Whether p-retry, the attempt numbered `made` having rejected, rejects
\* instead of arming its back-off timer: it does once the retries are used up
GivesUp(made) == made > Retries

\* The body p-retry runs for call r: the sequence counter is incremented, the
\* buffer is stamped and written and the resolver is stored under the new
\* number.  When the try block raises (writeSequenceN or write; see
\* TransportBreaks) the counter has been incremented, nothing is written
\* or stored, and p-retry arms its back-off timer or, after the last retry,
\* rejects.
Attempt(r) ==
  LET n == _currentSequenceN + 1 IN
  /\ _currentSequenceN' = n
  /\ attempts' = [attempts EXCEPT ![r] = @ + 1]
  /\ IF ~writeRaises
     THEN /\ written' = written \cup {n}
          /\ _resolvers' = [_resolvers EXCEPT ![n] = r]
          /\ seqOf' = [seqOf EXCEPT ![r] = n]
          /\ sendState' = [sendState EXCEPT ![r] = "active"]
     ELSE /\ UNCHANGED <<written, _resolvers, seqOf>>
          /\ sendState' = [sendState EXCEPT ![r] =
                              IF GivesUp(attempts[r] + 1) THEN "failed"
                                                           ELSE "backoff"]

\* What the promise returned by get()/set() becomes when _send's promise
\* rejects: only .then(onFulfilled) is attached to it, so it stays as it is
OnSendRejected(cs) == cs

\* What the promise returned by get()/set() becomes when _send throws:
\* the executor's catch rejects it
OnSendThrew(cs) == "rejected"

\* A call of get(), set() or _sendPing() that passes _send's guard, k its
\* kind: the call is numbered and p-retry makes the first attempt within the
\* same turn.
Call(k) ==
  LET r == nCalls + 1 IN
  /\ nCalls' = r
  /\ kind' = [kind EXCEPT ![r] = k]
  /\ Attempt(r)
  /\ callState' = [callState EXCEPT ![r] = "pending"]
  /\ UNCHANGED result

\* get(options) or set(options), k telling which.  A call that _send refuses
\* leaves nothing behind but its rejected promise, which `last` shows.
UserCall(k, lim) ==
  /\ UNCHANGED findVars
  /\ IF MaySend(isConnected)
     THEN /\ nCalls < lim.calls
          /\ _currentSequenceN < lim.seq
          /\ Call(k)
          /\ last' = [Quiet EXCEPT !.op = k, !.outcome = "pending"]
     ELSE /\ UNCHANGED callVars
          /\ last' = [Quiet EXCEPT !.op = k, !.outcome = OnSendThrew("pending")]
  /\ UNCHANGED connVars
  /\ UNCHANGED writeRaises

Get(lim) == UserCall("get", lim)

Set(lim) == UserCall("set", lim)

\* The back-off timer of p-retry fires for call r: the next attempt.
RetryFire(r, lim) ==
  /\ UNCHANGED findVars
  /\ sendState[r] = "backoff"
  /\ _currentSequenceN < lim.seq
  /\ Attempt(r)
  /\ callState' = [callState EXCEPT ![r] =
                      IF sendState'[r] = "failed" THEN OnSendRejected(@) ELSE @]
  /\ last' = Quiet
  /\ UNCHANGED <<nCalls, kind, result>>
  /\ UNCHANGED connVars
  /\ UNCHANGED writeRaises

\* One tick of the heartbeat interval t: _sendPing().  When _send throws, the
\* async function's promise rejects and nothing else happens.
\* A bounded run stops ticking at the cap on calls; the program's interval
\* goes on, every further tick storing one more ping resolver and settling
\* no request, so a request pending at the cap is pending after every tick.
Tick(t, lim) ==
  /\ UNCHANGED findVars
  /\ t \in timers
  /\ IF MaySend(isConnected)
     THEN /\ nCalls < lim.calls
          /\ _currentSequenceN < lim.seq
          /\ Call("ping")
     ELSE UNCHANGED callVars
  /\ last' = Quiet
  /\ UNCHANGED connVars
  /\ UNCHANGED writeRaises

\* From now on the try block of an attempt raises.  The one synchronous
\* failure the stamping and writing of a well-formed buffer has is permanent
\* (a sequence number the 32-bit field cannot hold), so the condition, once
\* it holds, keeps holding; when it starts to hold is left open.
TransportBreaks ==
  /\ UNCHANGED findVars
  /\ ~writeRaises
  /\ writeRaises' = TRUE
  /\ last' = Quiet
  /\ UNCHANGED connVars
  /\ UNCHANGED callVars

\* ------------------------------------------------------ inbound packets

\* What the device can send: a status frame (a reply or a push; command 8
\* takes the same path through _packetHandler as command 10) with sequence
\* 0 or any sequence number stamped so far, the acknowledgement of a set()
\* that was written and the answer to a ping that was written, each echoing
\* the request's sequence number.
Packets ==
  {[cmd |-> CmdGet, seq |-> n, payload |-> n] : n \in 0.._currentSequenceN}
  \cup {[cmd |-> CmdSet, seq |-> seqOf[r], payload |-> 0] :
          r \in {x \in Calls : kind[x] = "set" /\ seqOf[x] # 0}}
  \cup {[cmd |-> CmdPing, seq |-> seqOf[r], payload |-> 0] :
          r \in {x \in Calls : kind[x] = "ping" /\ seqOf[x] # 0}}

Buffers == UNION {[1..n -> Packets] : n \in 1..MaxBuf}

\* The commands _packetHandler returns on before any resolver is looked up
Swallowed(p) == p.cmd = CmdPing \/ p.cmd = CmdSet

\* The key removed after the sequence-0 fallback ran the resolver under key k
FallbackDeleteKey(p, k) == p.seq

\* Which of the table's keys the sequence-0 fallback takes:
\* Object.keys(...)[0], and integer-like keys enumerate in ascending order
FallbackKey(keys) == Min(keys)

\* The handler's view of the state it changes
HandlerState ==
  [res |-> _resolvers, ss |-> sendState, cs |-> callState, result |-> result,
   threw |-> FALSE, acked |-> {}, echoed |-> {}, fbHit |-> FALSE,
   fbCall |-> 0, fbPending |-> {}]

\* this._resolvers[k](payload): the resolver of call r settles the attempt's
\* promise, p-retry's and, through .then, the one get()/set() returned; on a
\* promise already settled it changes nothing
Invoke(st, r, payload) ==
  [st EXCEPT
     !.ss = [@ EXCEPT ![r] = IF @ = "active" THEN "resolved" ELSE @],
     !.result = [@ EXCEPT ![r] = IF st.ss[r] = "active" THEN payload ELSE @],
     !.cs = [@ EXCEPT ![r] =
               IF st.ss[r] = "active" /\ @ = "pending" THEN "resolved" ELSE @]]

\* (a correlation bug: the latest request's key instead of the packet's)
ResolverKeyLatest(p) == _currentSequenceN

\* The key whose resolver a packet that is not swallowed is given to
ResolverKey(p) == p.seq

\* _packetHandler(packet)
PacketHandler(st, p) ==
  IF Swallowed(p)
  THEN [st EXCEPT !.acked = IF p.cmd = CmdSet THEN @ \cup {p.seq} ELSE @]
  ELSE LET s1 == [st EXCEPT !.echoed = @ \cup {p.seq}]
           key == ResolverKey(p)
       IN
       IF s1.res[key] # 0
       THEN [Invoke(s1, s1.res[key], p.payload) EXCEPT !.res[key] = 0]
       ELSE IF p.seq = 0
       THEN LET keys == {k \in Seqs : s1.res[k] # 0}
                pend == {r \in Calls : s1.ss[r] = "active"}
            IN IF keys = {}
               THEN \* this._resolvers[undefined] is not a function: TypeError
                    [s1 EXCEPT !.threw = TRUE, !.fbHit = TRUE, !.fbCall = 0,
                               !.fbPending = pend]
               ELSE LET k == FallbackKey(keys) IN
                    [Invoke(s1, s1.res[k], p.payload) EXCEPT
                       !.res[FallbackDeleteKey(p, k)] = 0,
                       !.fbHit = TRUE, !.fbCall = s1.res[k], !.fbPending = pend]
       ELSE s1

\* packets.forEach(packet => this._packetHandler(packet)): an exception
\* leaves forEach, and the packets after it are not handled
RECURSIVE HandleAll(_, _)
HandleAll(st, buf) ==
  IF buf = <<>> \/ st.threw THEN st
  ELSE HandleAll(PacketHandler(st, Head(buf)), Tail(buf))

\* The 'data' handler of socket s, for a buffer the parser decodes to buf.
\* A get() awaited by a 'connect' handler that has now resolved lets that
\* handler go on to resolve(true).
Deliver(s, buf) ==
  /\ UNCHANGED findVars
  /\ sock[s] = "open"
  /\ LET st == HandleAll(HandlerState, buf) IN
     /\ _resolvers' = st.res
     /\ sendState' = st.ss
     /\ callState' = st.cs
     /\ result' = st.result
     /\ last' = [op |-> "data", outcome |-> "none", threw |-> st.threw,
                 acked |-> st.acked, echoed |-> st.echoed,
                 fbHit |-> st.fbHit, fbCall |-> st.fbCall,
                 fbPending |-> st.fbPending,
                 emitted |-> IF st.echoed = {} THEN {} ELSE {"data"}]
     /\ connectPromise' =
          [x \in Sockets |->
             IF /\ connectPromise[x] = "pending"
                /\ connCall[x] # 0
                /\ st.cs[connCall[x]] = "resolved"
             THEN "resolved" ELSE connectPromise[x]]
  /\ UNCHANGED <<_connected, client, sock, sockTimer, connCall,
                 pingpongTimeout, timers, _currentSequenceN, nCalls, kind,
                 attempts, seqOf, written, writeRaises>>

\* ------------------------------------------------------- the TCP session

FreeSockets(lim) == {s \in 1..lim.sockets : sock[s] = "none"}

\* connect(): resolves at once when connected; otherwise a new socket
\* replaces this.client (whatever state the previous one is in), starts
\* connecting with its idle timer armed, and the promise stays pending.
Connect(lim) ==
  /\ UNCHANGED findVars
  /\ IF isConnected
     THEN UNCHANGED connVars
     ELSE /\ FreeSockets(lim) # {}
          /\ LET s == Min(FreeSockets(lim)) IN
             /\ client' = s
             /\ sock' = [sock EXCEPT ![s] = "connecting"]
             /\ sockTimer' = [sockTimer EXCEPT ![s] = TRUE]
             /\ connectPromise' = [connectPromise EXCEPT ![s] = "pending"]
          /\ UNCHANGED <<_connected, connCall, pingpongTimeout, timers>>
  /\ last' = Quiet
  /\ UNCHANGED callVars
  /\ UNCHANGED writeRaises

\* The interval handle this.pingpongTimeout holds after the 'connect'
\* handler of socket s ran setInterval
NewInterval(s) == s

\* The 'connect' handler of socket s
SocketConnect(s, lim) ==
  /\ UNCHANGED findVars
  /\ sock[s] = "connecting"
  /\ nCalls < lim.calls
  /\ _currentSequenceN < lim.seq
  /\ sock' = [sock EXCEPT ![s] = "open"]
  /\ _connected' = TRUE
  /\ sockTimer' = [sockTimer EXCEPT ![client] = FALSE]
  /\ pingpongTimeout' = NewInterval(s)
  /\ timers' = timers \cup {NewInterval(s)}
  /\ Call("get")
  /\ connCall' = [connCall EXCEPT ![s] = nCalls + 1]
  /\ last' = Quiet
  /\ UNCHANGED <<client, connectPromise, writeRaises>>

\* The socket the 'error', 'close' and timeout handlers of socket s destroy
HandlerTarget(s) == client

\* The 'error' handler of socket s.  The socket that reports an error has
\* been destroyed by net itself.
SocketError(s) ==
  /\ UNCHANGED findVars
  /\ sock[s] \in {"connecting", "open"}
  /\ LET sk == Destroy(Destroy(sock, s), HandlerTarget(s)) IN
     /\ sock' = sk
     /\ sockTimer' = TimersAfter(sockTimer, sk)
  /\ last' = [Quiet EXCEPT !.op = "error", !.emitted = {"error"}]
  /\ UNCHANGED <<_connected, client, connectPromise, connCall,
                 pingpongTimeout, timers>>
  /\ UNCHANGED callVars
  /\ UNCHANGED writeRaises

\* The device ends the connection of socket s: its 'close' is queued
PeerClose(s) ==
  /\ UNCHANGED findVars
  /\ sock[s] = "open"
  /\ LET sk == Destroy(sock, s) IN
     /\ sock' = sk
     /\ sockTimer' = TimersAfter(sockTimer, sk)
  /\ last' = Quiet
  /\ UNCHANGED <<_connected, client, connectPromise, connCall,
                 pingpongTimeout, timers>>
  /\ UNCHANGED callVars
  /\ UNCHANGED writeRaises

\* The 'close' handler of socket s
SocketClose(s) ==
  /\ UNCHANGED findVars
  /\ sock[s] = "destroyed"
  /\ _connected' = FALSE
  /\ LET sk == Destroy([sock EXCEPT ![s] = "closed"], HandlerTarget(s)) IN
     /\ sock' = sk
     /\ sockTimer' = TimersAfter(sockTimer, sk)
  /\ IF pingpongTimeout # 0
     THEN /\ timers' = ClearTimeout(timers, pingpongTimeout)
          /\ pingpongTimeout' = 0
     ELSE UNCHANGED <<timers, pingpongTimeout>>
  /\ last' = [Quiet EXCEPT !.op = "close", !.emitted = {"disconnected"}]
  /\ UNCHANGED <<client, connectPromise, connCall>>
  /\ UNCHANGED callVars
  /\ UNCHANGED writeRaises

\* The idle timer of socket s fires: the callback given to setTimeout
\* destroys this.client and rejects the promise of the connect() that made s
SocketTimeout(s) ==
  /\ UNCHANGED findVars
  /\ sockTimer[s]
  /\ sock[s] \in {"connecting", "open"}
  /\ LET sk == Destroy(sock, HandlerTarget(s)) IN
     /\ sock' = sk
     /\ sockTimer' = TimersAfter([sockTimer EXCEPT ![s] = FALSE], sk)
  /\ connectPromise' = [connectPromise EXCEPT ![s] =
                          IF @ = "pending" THEN "rejected" ELSE @]
  /\ last' = Quiet
  /\ UNCHANGED <<_connected, client, connCall, pingpongTimeout, timers>>
  /\ UNCHANGED callVars
  /\ UNCHANGED writeRaises

\* disconnect().  this._sendTimeout is never assigned, and
\* this._connectTimeout and this._responseTimeout hold the number 5, so only
\* clearTimeout(this.pingpongTimeout) cancels anything; the handle is kept.
Disconnect ==
  /\ UNCHANGED findVars
  /\ _connected' = FALSE
  /\ timers' = ClearTimeout(timers, pingpongTimeout)
  /\ LET sk == Destroy(sock, client) IN
     /\ sock' = sk
     /\ sockTimer' = TimersAfter(sockTimer, sk)
  /\ last' = Quiet
  /\ UNCHANGED <<client, connectPromise, connCall, pingpongTimeout>>
  /\ UNCHANGED callVars
  /\ UNCHANGED writeRaises

\* ------------------------------------------------------------ discovery

\* What arrives on the discovery port: a frame the parser throws on
\* ("corrupt"), a datagram it finds no frame in ("empty": parse returns an
\* empty array), and broadcasts, gwId and ip being the fields of the decoded
\* payload; a payload that did not decode as a document has neither (0).
Datagrams ==
  {[type |-> "corrupt", gwId |-> 0, ip |-> 0],
   [type |-> "empty", gwId |-> 0, ip |-> 0],
   [type |-> "broadcast", gwId |-> 0, ip |-> 0]}
  \cup {[type |-> "broadcast", gwId |-> g, ip |-> a] : g \in 1..MaxDev, a \in 1..MaxDev}

\* The payload of a broadcast: productKey and version come with it
Payload(d) == [gwId |-> d.gwId, ip |-> d.ip, productKey |-> 1, version |-> 33]

checkIfValidString(x) == x # 0

\* A promise that settles once: pending -> to, anything else stays
Settle(pr, f, to) == [pr EXCEPT ![f] = IF @ = "pending" THEN to ELSE @]
SettleOutcome(f, what) ==
  [findOutcome EXCEPT ![f] = IF findPromise[f] = "pending" THEN what ELSE @]

\* find({all}): with both id and ip known it resolves true at once;
\* otherwise it binds a listener, attaches the 'message' and 'error'
\* handlers and starts the timer of p-timeout.
Find(all) ==
  /\ nFinds < MaxFinds
  /\ LET f == nFinds + 1 IN
     /\ nFinds' = f
     /\ findAll' = [findAll EXCEPT ![f] = all]
     /\ IF checkIfValidString(device.id) /\ checkIfValidString(device.ip)
        THEN /\ findPromise' = [findPromise EXCEPT ![f] = "resolved"]
             /\ findOutcome' = [findOutcome EXCEPT ![f] = "ready"]
             /\ UNCHANGED <<listener, handlers, findTimer>>
        ELSE /\ findPromise' = [findPromise EXCEPT ![f] = "pending"]
             /\ listener' = [listener EXCEPT ![f] = "bound"]
             /\ handlers' = [handlers EXCEPT ![f] = TRUE]
             /\ findTimer' = [findTimer EXCEPT ![f] = TRUE]
             /\ UNCHANGED findOutcome
  /\ heard' = Silent
  /\ UNCHANGED <<device, foundDevices>>
  /\ UNCHANGED sessionVars

\* (a missing look-up: every broadcast is pushed)
RememberAll(found, id, ip) == [found EXCEPT ![<<id, ip>>] = @ + 1]

\* this.foundDevices after the entry of a broadcast was looked for and,
\* when missing, pushed
Remember(found, id, ip) ==
  IF found[<<id, ip>>] > 0
  THEN found ELSE [found EXCEPT ![<<id, ip>>] = @ + 1]

\* Whether the 'message' handler takes the broadcast for the device looked
\* for; undefined === undefined holds, and the payload of a broadcast (an
\* object, or the text that did not decode as one) is truthy
Matches(all, dev, thisID, thisIP) ==
  ~all /\ (dev.id = thisID \/ dev.ip = thisIP)

\* What releasing the listener leaves of it, after the match
ReleasedOnMatch(state) == "closed"

\* What is left of the listener when the promise was rejected from the
\* 'message' or the 'error' handler: nothing closes it, and p-timeout, its
\* promise settled, cancels the timer whose callback would have
ReleasedOnReject(state) == state

\* The 'message' handler of find() f, for datagram d
Message(f, d) ==
  /\ listener[f] = "bound"
  /\ handlers[f]
  /\ CASE d.type = "corrupt" ->
            \* parse throws: reject(error); then dataRes.payload raises
            /\ findPromise' = Settle(findPromise, f, "rejected")
            /\ findOutcome' = SettleOutcome(f, "decode error")
            /\ findTimer' = [findTimer EXCEPT ![f] = FALSE]
            /\ listener' = [listener EXCEPT ![f] = ReleasedOnReject(@)]
            /\ UNCHANGED <<device, foundDevices, handlers>>
       [] d.type = "empty" ->
            \* parse(message)[0] is undefined: dataRes.payload raises
            UNCHANGED <<device, foundDevices, listener, handlers,
                        findTimer, findPromise, findOutcome>>
       [] d.type = "broadcast" ->
            LET pl == Payload(d) IN
            /\ foundDevices' = Remember(foundDevices, pl.gwId, pl.ip)
            /\ IF Matches(findAll[f], device, pl.gwId, pl.ip)
               THEN /\ device' = [device EXCEPT !.ip = pl.ip, !.id = pl.gwId,
                                     !.gwID = pl.gwId,
                                     !.productKey = pl.productKey,
                                     !.version = pl.version]
                    /\ listener' = [listener EXCEPT ![f] = ReleasedOnMatch(@)]
                    /\ handlers' = [handlers EXCEPT ![f] = FALSE]
                    /\ findPromise' = Settle(findPromise, f, "resolved")
                    /\ findOutcome' = SettleOutcome(f, "match")
                    /\ findTimer' = [findTimer EXCEPT ![f] = FALSE]
               ELSE UNCHANGED <<device, listener, handlers, findPromise,
                                findOutcome, findTimer>>
  /\ heard' = [find |-> f, type |-> d.type, gwId |-> d.gwId, ip |-> d.ip,
               pending |-> findPromise[f] = "pending",
               known |-> foundDevices[<<d.gwId, d.ip>>] > 0, dev |-> device]
  /\ UNCHANGED <<nFinds, findAll>>
  /\ UNCHANGED sessionVars

\* The 'error' handler of the listener of find() f: reject(err)
ListenerError(f) ==
  /\ listener[f] = "bound"
  /\ handlers[f]
  /\ findPromise' = Settle(findPromise, f, "rejected")
  /\ findOutcome' = SettleOutcome(f, "listener error")
  /\ findTimer' = [findTimer EXCEPT ![f] = FALSE]
  /\ listener' = [listener EXCEPT ![f] = ReleasedOnReject(@)]
  /\ heard' = Silent
  /\ UNCHANGED <<device, foundDevices, nFinds, handlers, findAll>>
  /\ UNCHANGED sessionVars

\* The timer of p-timeout fires for find() f: the fallback closes the
\* listener, removes its handlers and returns the devices found (all) or
\* throws
FindTimeout(f) ==
  /\ findTimer[f]
  /\ findTimer' = [findTimer EXCEPT ![f] = FALSE]
  /\ listener' = [listener EXCEPT ![f] = "closed"]
  /\ handlers' = [handlers EXCEPT ![f] = FALSE]
  /\ findPromise' = Settle(findPromise, f, IF findAll[f] THEN "resolved" ELSE "rejected")
  /\ findOutcome' = SettleOutcome(f, IF findAll[f] THEN "list" ELSE "timeout")
  /\ heard' = Silent
  /\ UNCHANGED <<device, foundDevices, nFinds, findAll>>
  /\ UNCHANGED sessionVars

NextFind ==
  \/ \E all \in BOOLEAN : Find(all)
  \/ \E f \in Finds : \E d \in Datagrams : Message(f, d)
  \/ \E f \in Finds : ListenerError(f)
  \/ \E f \in Finds : FindTimeout(f)

\* ------------------------------------------------------- specifications

Next(lim) ==
  \/ Connect(lim)
  \/ Disconnect
  \/ Get(lim)
  \/ Set(lim)
  \/ \E r \in Calls : RetryFire(r, lim)
  \/ TransportBreaks
  \/ \E t \in Sockets : Tick(t, lim)
  \/ \E s \in Sockets : SocketConnect(s, lim)
  \/ \E s \in Sockets : SocketError(s)
  \/ \E s \in Sockets : PeerClose(s)
  \/ \E s \in Sockets : SocketClose(s)
  \/ \E s \in Sockets : SocketTimeout(s)
  \/ \E s \in Sockets : \E buf \in Buffers : Deliver(s, buf)

\* What the event loop guarantees: a queued 'close' event is delivered, an
\* armed timer (idle timer, back-off timer, interval) fires.  Nothing obliges
\* the host to call a method or the device to send anything.
Fairness(lim) ==
  /\ \A s \in Sockets : WF_vars(SocketClose(s))
  /\ \A s \in Sockets : WF_vars(SocketTimeout(s))
  /\ \A r \in Calls : WF_vars(RetryFire(r, lim))
  /\ \A t \in Sockets : WF_vars(Tick(t, lim))

\* Session runs
Spec == Init /\ [][Next(SessionRun)]_vars
FairSpec == Spec /\ Fairness(SessionRun)

\* Request runs
ReqSpec == Init /\ [][Next(RequestRun)]_vars
FairReqSpec == ReqSpec /\ Fairness(RequestRun)

\* Retry runs
RetrySpec == Init /\ [][Next(RetryRun)]_vars

\* Discovery runs
FindSpec == InitFind /\ [][NextFind]_vars

\* ================================================================ claims

Pending(r) == sendState[r] = "active"

\* The call of S whose resolver was stored under the lowest sequence number
OldestOf(S) == CHOOSE r \in S : \A q \in S : seqOf[r] <= seqOf[q]

\* C1: a request written while Connected to a device that never answers does
\* not stay pending for ever: as long as the connection stays Connected it
\* ends up answered or failed with an error its caller sees.
C1_NoIndefiniteStall ==
  \A r \in Calls :
    (Pending(r) /\ _connected)
      ~> (callState[r] = "rejected" \/ sendState[r] = "resolved" \/ ~_connected)

\* C2: with several status queries outstanding and their responses arriving
\* in any order, a caller is resolved by the status frame that echoes its
\* own sequence number and is given that frame's payload; the payload a
\* caller holds is never the one of a frame echoing another request (label
\* 0 is the payload of a frame that echoes no sequence number).  Once it is
\* resolved by its own frame its resolver is gone, so it is resolved once.
C2_OwnPayload ==
  \A r \in Calls :
    /\ (result[r] # NoResult) <=> (sendState[r] = "resolved")
    /\ sendState[r] = "resolved" => /\ result[r] \in {seqOf[r], 0}
                                     /\ callState[r] = "resolved"
    /\ (sendState[r] = "resolved" /\ result[r] = seqOf[r])
         => _resolvers[seqOf[r]] = 0
    /\ (last.op = "data" /\ seqOf[r] # 0 /\ seqOf[r] \in last.echoed)
         => sendState[r] = "resolved"

\* C2 witness: a later request was resolved by its own frame before the
\* frame of an earlier one arrived, and each holds its own payload
C2_Witness ==
  \E r1, r2 \in Calls :
    /\ kind[r1] = "get" /\ kind[r2] = "get"
    /\ 0 < seqOf[r1] /\ seqOf[r1] < seqOf[r2]
    /\ last.op = "data" /\ last.echoed = {seqOf[r1]}
    /\ result[r1] = seqOf[r1] /\ result[r2] = seqOf[r2]

\* C3: every status frame with sequence 0 that finds no entry under key 0
\* resolves the oldest request still pending at that moment.
C3_FallbackOldestPending ==
  (last.fbHit /\ last.fbPending # {}) => last.fbCall = OldestOf(last.fbPending)

\* C4: heartbeat traffic does not change which request a response resolves:
\* a status frame with sequence 0 that arrives while a get() or set() is
\* pending is never given to the resolver of a heartbeat ping.
C4_HeartbeatInert ==
  (last.fbHit /\ \E r \in last.fbPending : kind[r] # "ping")
    => (last.fbCall # 0 /\ kind[last.fbCall] # "ping")

\* C5: a heartbeat interval is live only while the state is Connected.
C5_TimerOnlyWhileConnected == timers # {} => _connected

C7_ConnectSettles ==
  \A s \in Sockets :
    (connectPromise[s] = "pending")
      ~> (connectPromise[s] \in {"resolved", "rejected"}
            \/ _currentSequenceN >= SessionSeq)

\* C8: a set() written while Connected and acknowledged by the device with
\* a command-7 frame echoing its sequence number eventually resolves.
C8_AckResolvesSet ==
  \A r \in Calls :
    (kind[r] = "set" /\ _connected /\ last.op = "data" /\ seqOf[r] # 0
       /\ seqOf[r] \in last.acked)
      ~> (callState[r] = "resolved")

\* C9: when _send has failed (p-retry gave up), the promise get()/set()
\* returned is rejected.
C9_SendFailureRejects ==
  \A r \in Calls : sendState[r] = "failed" => callState[r] = "rejected"

\* C10: once a find() that opened a listener has settled, the listener is
\* closed and its handlers are removed.
C10_ListenerReleased ==
  \A f \in Finds :
    (findPromise[f] \in {"resolved", "rejected"} /\ listener[f] # "none")
      => (listener[f] = "closed" /\ ~handlers[f])

\* C11: with all=false and one of id/ip configured, a broadcast that arrives
\* while find() is pending resolves it exactly when its identifier or its
\* address equals the configured one, and then this.device holds the
\* broadcast's address, identifier, product key and version; a broadcast
\* that equals neither configured field leaves find() pending and
\* this.device as it was.
C11_MatchAdopts ==
  (/\ heard.type = "broadcast" /\ heard.pending /\ ~findAll[heard.find]
   /\ checkIfValidString(heard.dev.id) # checkIfValidString(heard.dev.ip))
    => IF \/ checkIfValidString(heard.dev.id) /\ heard.dev.id = heard.gwId
          \/ checkIfValidString(heard.dev.ip) /\ heard.dev.ip = heard.ip
       THEN /\ findPromise[heard.find] = "resolved"
            /\ findOutcome[heard.find] = "match"
            /\ device.ip = heard.ip /\ device.id = heard.gwId
            /\ device.productKey = Payload(heard).productKey
            /\ device.version = Payload(heard).version
       ELSE /\ findPromise[heard.find] = "pending"
            /\ device = heard.dev

\* C12: a find() that listens settles at the timeout and not before,
\* whatever datagrams arrive: with all=true it then succeeds with the list
\* of devices found; with all=false and no match it then fails with the
\* time-out error.  (A failure the listener itself reports is left aside.)
C12_SettlesAtTimeout ==
  \A f \in Finds :
    (/\ listener[f] # "none" /\ findPromise[f] \in {"resolved", "rejected"}
     /\ findOutcome[f] # "listener error")
      => IF findAll[f]
         THEN findPromise[f] = "resolved" /\ findOutcome[f] = "list"
         ELSE \/ findPromise[f] = "resolved" /\ findOutcome[f] = "match"
              \/ findPromise[f] = "rejected" /\ findOutcome[f] = "timeout"

\* C13: this.foundDevices holds at most one entry for each (id, ip) pair,
\* and a broadcast whose pair it already holds leaves it unchanged.
C13_OneEntryPerPair ==
  [][/\ \A e \in Entries : foundDevices'[e] <= 1
     /\ (heard'.type = "broadcast" /\ heard'.known)
          => foundDevices' = foundDevices]_vars

\* C13 witness: a broadcast arrived whose pair was already held, another
\* pair is held too, and each is held once
C13_Witness ==
  /\ heard.type = "broadcast" /\ heard.known
  /\ foundDevices[<<heard.gwId, heard.ip>>] = 1
  /\ \E e \in Entries : e # <<heard.gwId, heard.ip>> /\ foundDevices[e] = 1

\* C14: disconnect(), called in any state, leaves the state Disconnected
\* with no heartbeat interval live and the transport, if there is one,
\* destroyed; calling it again would change nothing; and it neither invokes
\* nor removes a resolver.
C14_DisconnectTotal ==
  [][Disconnect
       => /\ ~_connected'
          /\ timers' = {}
          /\ client' # 0 => sock'[client'] \notin {"connecting", "open"}
          /\ ClearTimeout(timers', pingpongTimeout') = timers'
          /\ Destroy(sock', client') = sock'
          /\ UNCHANGED <<_resolvers, sendState, callState, result>>]_vars

\* C15: a resolver is used once: an entry of the table whose request an
\* inbound packet has fulfilled is removed in the same step, so every entry
\* in the table belongs to a request that is still pending.
C15_SingleUse ==
  \A k \in Seqs : _resolvers[k] # 0 => sendState[_resolvers[k]] = "active"

\* C16 as stated: a send makes at most 5 attempts in all.
C16_AtMostFiveAttempts == \A r \in Calls : attempts[r] <= 5

\* C16: a send makes at most 6 attempts in all, the first and 5 retries: it
\* waits for a retry only after fewer than 6, and it has failed only after
\* exactly 6, each stamped with a sequence number of its own.
C16_AtMostSixAttempts ==
  \A r \in Calls :
    /\ attempts[r] <= Retries + 1
    /\ sendState[r] = "backoff" => attempts[r] <= Retries
    /\ sendState[r] = "failed" => attempts[r] = Retries + 1
    /\ attempts[r] <= _currentSequenceN

\* C16 witness: every write of a send raised and the send has failed after
\* its sixth attempt, with sequence numbers left for a seventh
C16_Witness ==
  \E r \in Calls :
    /\ writeRaises /\ sendState[r] = "failed" /\ attempts[r] = 6
    /\ seqOf[r] = 0 /\ _currentSequenceN < RetryRun.seq

\* C17: the 'error' event of a socket while Connected emits an error
\* notification and leaves that socket and this.client destroyed; the
\* 'close' event emits a disconnected notification and leaves the state
\* Disconnected; neither invokes or removes a resolver; and after the error
\* the state does become Disconnected with the notification emitted.
C17_ErrorDisconnects ==
  /\ [][\A s \in Sockets :
          /\ (SocketError(s) /\ _connected)
               => /\ last'.emitted = {"error"}
                  /\ sock'[s] \notin {"connecting", "open"}
                  /\ client # 0 => sock'[client] \notin {"connecting", "open"}
                  /\ UNCHANGED <<_resolvers, sendState, callState, result>>
          /\ SocketClose(s)
               => /\ last'.emitted = {"disconnected"}
                  /\ ~_connected'
                  /\ UNCHANGED <<_resolvers, sendState, callState, result>>]_vars
  /\ (last.op = "error" /\ _connected)
       ~> (last.op = "close" /\ ~_connected /\ "disconnected" \in last.emitted)

\* C17 witness: the transport has reported an error while Connected, with a
\* request pending; it is destroyed and the request's entry is in the table
C17_Witness ==
  /\ last.op = "error" /\ _connected
  /\ client # 0 /\ sock[client] = "destroyed"
  /\ \E k \in Seqs : _resolvers[k] # 0 /\ sendState[_resolvers[k]] = "active"

\* C18: of the sockets the instance has created, at most one is open
\* (connected) at any time.
C18_OneTransport == Cardinality({s \in Sockets : sock[s] = "open"}) <= 1

\* C19: a 'data' event never raises: a status frame with sequence 0 that
\* finds the table empty is handled like any other, and the packets after
\* it in the buffer are handled too.
C19_PushOnEmptyTable == last.op = "data" => ~last.threw

\* C20: the 'close' event of a socket that is no longer this.client leaves
\* the current transport, the connection state and the heartbeat interval
\* as they were.
C20_SupersededCloseInert ==
  [][\A s \in Sockets :
       (SocketClose(s) /\ s # client)
         => /\ sock'[client] = sock[client]
            /\ _connected' = _connected
            /\ timers' = timers]_vars

====
